---- MODULE Spec2Model ----
(***************************************************************************)
(* State-machine model of the user microservice: UserService               *)
(* (src/src/user/services/user.service.ts) and AuthContoller               *)
(* (src/unnamed/part_000) over one account store.                          *)
(*                                                                         *)
(* A handler is split at the awaits that reach the store: the store is the *)
(* only shared state, so everything a handler does between two store calls *)
(* is local and belongs to the step of the earlier call.                   *)
(***************************************************************************)
EXTENDS Integers, Sequences, FiniteSets, Bags, TLC

\* ---- bounds -------------------------------------------------------------
NumUsernames == 2
NumFirstNames == 2
NumLastNames == 1
NumPasswords == 2
NumSalts == 1
MaxUsers == 2
MaxInFlight == 2

Usernames == 1..NumUsernames
FirstNames == 1..NumFirstNames
LastNames == 1..NumLastNames
Passwords == 1..NumPasswords
Salts == 1..NumSalts
Ids == 1..MaxUsers

\* ---- messages and statuses ----------------------------------------------
MsgNotExist == "User does not exist."
MsgAlreadyExists == "User already exists."
MsgNotFound == "User not found."
MsgIncorrect == "Incorrect password."
MsgDuplicateKey == "E11000 duplicate key error"
CREATED == 201
OK == 200
BAD_REQUEST == 400

\* users: the stored accounts, an account's id being its position;
\* inflight: the requests between their findByUserId and their save;
\* created: the usernames that a create has registered so far;
\* last: the step just taken.
VARIABLES users, inflight, created, last

vars == <<users, inflight, created, last>>

\* ---- the account schema (password hashing, unique username) --------------
\* A password value as the request carries it.
Plain(p) == [kind |-> "plain", salt |-> 0, val |-> p]

\* A salted hash: the salt is kept with the digest, and the digest depends on
\* both the password and the salt.
Hash(p, s) == [kind |-> "hash", salt |-> s, val |-> p * (NumSalts + 1) + s]

NoDoc == [username |-> 0, firstName |-> 0, lastName |-> 0, password |-> Plain(0)]

\* user.comparePassword(candidate): re-hash the candidate with the stored salt.
comparePassword(doc, candidate) ==
  /\ doc.password.kind = "hash"
  /\ Hash(candidate, doc.password.salt) = doc.password

\* The pre-save hook: a modified password is replaced by a fresh hash of it.
preSave(doc, modified, s) ==
  IF "password" \in modified
    THEN [doc EXCEPT !.password = Hash(doc.password.val, s)]
    ELSE doc

\* Mutant: the collection has no unique index.
DuplicateKey_noIndex(us, id, username) == FALSE

\* The unique index on username: the write of `username` to document `id`
\* (0 for an insert) collides with another document.
DuplicateKey(us, id, username) ==
  \E j \in DOMAIN us : j # id /\ us[j].username = username

\* ---- the document model ---------------------------------------------------
Paths == {"username", "firstName", "lastName", "password"}

\* The paths of a loaded document that an assignment has changed: setting a
\* path to the value it already has does not mark it.
ModifiedPaths(loaded, doc) == {f \in Paths : doc[f] # loaded[f]}

\* Mutant: any assignment counts as a modification.
isModified_touched(loaded, doc) == TRUE

isModified(loaded, doc) == ModifiedPaths(loaded, doc) # {}

\* userModel.find({ username }).limit(1).exec(): ids of the first match.
find(us, username) ==
  LET m == {i \in DOMAIN us : us[i].username = username}
  IN IF m = {} THEN <<>> ELSE <<CHOOSE i \in m : \A j \in m : i <= j>>

\* new this.userModel(dto).save(): hash, then insert under the unique index.
saveNew(us, dto, s) ==
  LET doc == preSave([username |-> dto.username, firstName |-> dto.firstName,
                      lastName |-> dto.lastName, password |-> Plain(dto.password)],
                     Paths, s)
  IN IF DuplicateKey(us, 0, doc.username)
       THEN [err |-> MsgDuplicateKey, users |-> us]
       ELSE [err |-> "", users |-> Append(us, doc)]

\* user.save() of a loaded document: only the modified paths are written to
\* the stored document, under the unique index.
save(us, id, loaded, doc, s) ==
  LET mod == ModifiedPaths(loaded, doc)
      hashed == preSave(doc, mod, s)
      stored == [f \in Paths |-> IF f \in mod THEN hashed[f] ELSE us[id][f]]
  IN IF "username" \in mod /\ DuplicateKey(us, id, doc.username)
       THEN [err |-> MsgDuplicateKey, users |-> us]
       ELSE [err |-> "", users |-> [us EXCEPT ![id] = stored]]

\* ---- UserService ------------------------------------------------------------
findByUserId(us, id) ==
  IF id \in DOMAIN us
    THEN [ok |-> TRUE, message |-> "", doc |-> us[id]]
    ELSE [ok |-> FALSE, message |-> MsgNotExist, doc |-> NoDoc]

\* Mutant: the store's error is rethrown as it is.
create_rethrow(us, dto, s) ==
  LET r == saveNew(us, dto, s)
  IN IF r.err = ""
       THEN [ok |-> TRUE, message |-> "", user |-> Len(r.users), users |-> r.users]
       ELSE [ok |-> FALSE, message |-> r.err, user |-> 0, users |-> us]

\* Mutant: the document is built and returned but never saved.
create_unsaved(us, dto, s) ==
  [ok |-> TRUE, message |-> "", user |-> Len(us) + 1, users |-> us]

create(us, dto, s) ==
  LET r == saveNew(us, dto, s)
  IN IF r.err = ""
       THEN [ok |-> TRUE, message |-> "", user |-> Len(r.users), users |-> r.users]
       ELSE [ok |-> FALSE, message |-> MsgAlreadyExists, user |-> 0, users |-> us]

\* Mutant: the password is not compared.
verify_noCompare(us, dto) ==
  LET found == find(us, dto.username)
  IN IF Len(found) = 0
       THEN [ok |-> FALSE, message |-> MsgNotFound, user |-> 0]
       ELSE [ok |-> TRUE, message |-> "", user |-> found[1]]

verify(us, dto) ==
  LET found == find(us, dto.username)
  IN IF Len(found) = 0
       THEN [ok |-> FALSE, message |-> MsgNotFound, user |-> 0]
       ELSE IF ~comparePassword(us[found[1]], dto.password)
              THEN [ok |-> FALSE, message |-> MsgIncorrect, user |-> 0]
              ELSE [ok |-> TRUE, message |-> "", user |-> found[1]]

\* Mutant: the length test is off by one.
checkIfExists_offByOne(us, username) ==
  [existing |-> Len(find(us, username)) > 1]

checkIfExists(us, username) ==
  [existing |-> Len(find(us, username)) > 0]

\* Mutant: firstName is not assigned.
updateProfile_skipFirstName(us, id, loaded, dto) ==
  LET doc == [loaded EXCEPT !.username = dto.username,
                            !.lastName = dto.lastName]
      r == save(us, id, loaded, doc, 1)
  IN IF isModified(loaded, doc)
       THEN IF r.err = ""
              THEN [ok |-> TRUE, message |-> "", updated |-> TRUE,
                    users |-> r.users, wrote |-> 1]
              ELSE [ok |-> FALSE, message |-> r.err, updated |-> FALSE,
                    users |-> us, wrote |-> 1]
       ELSE [ok |-> TRUE, message |-> "", updated |-> FALSE,
             users |-> us, wrote |-> 0]

\* updateProfile after findByUserId has resolved with `loaded`.
updateProfile(us, id, loaded, dto) ==
  LET doc == [loaded EXCEPT !.username = dto.username,
                            !.firstName = dto.firstName,
                            !.lastName = dto.lastName]
      r == save(us, id, loaded, doc, 1)
  IN IF isModified(loaded, doc)
       THEN IF r.err = ""
              THEN [ok |-> TRUE, message |-> "", updated |-> TRUE,
                    users |-> r.users, wrote |-> 1]
              ELSE [ok |-> FALSE, message |-> r.err, updated |-> FALSE,
                    users |-> us, wrote |-> 1]
       ELSE [ok |-> TRUE, message |-> "", updated |-> FALSE,
             users |-> us, wrote |-> 0]

\* Mutant: the new password is not assigned before the save.
changePassword_unassigned(us, id, loaded, newPassword, s) ==
  LET r == save(us, id, loaded, loaded, s)
  IN IF r.err = ""
       THEN [ok |-> TRUE, message |-> "", updated |-> TRUE, users |-> r.users]
       ELSE [ok |-> FALSE, message |-> r.err, updated |-> FALSE, users |-> us]

\* Mutant: the password is written with an update that skips the save hook.
changePassword_rawUpdate(us, id, loaded, newPassword, s) ==
  [ok |-> TRUE, message |-> "", updated |-> TRUE,
   users |-> [us EXCEPT ![id].password = Plain(newPassword)]]

\* changePassword after comparePassword has resolved true.
changePassword(us, id, loaded, newPassword, s) ==
  LET doc == [loaded EXCEPT !.password = Plain(newPassword)]
      r == save(us, id, loaded, doc, s)
  IN IF r.err = ""
       THEN [ok |-> TRUE, message |-> "", updated |-> TRUE, users |-> r.users]
       ELSE [ok |-> FALSE, message |-> r.err, updated |-> FALSE, users |-> us]

\* ---- requests ---------------------------------------------------------------
CreateDto ==
  {[username |-> u, firstName |-> f, lastName |-> l, password |-> p] :
     u \in Usernames, f \in FirstNames, l \in LastNames, p \in Passwords}

AuthorizeDto ==
  {[username |-> u, password |-> p] : u \in Usernames, p \in Passwords}

UpdateProfileDto ==
  {[username |-> u, firstName |-> f, lastName |-> l] :
     u \in Usernames, f \in FirstNames, l \in LastNames}

\* The paths a handler assigns after its findByUserId.
ProfilePaths == {"username", "firstName", "lastName"}
PasswordPaths == {"password"}

\* What a handler keeps of the document it loaded: the loaded values of the
\* paths it goes on to assign (the other paths are never read nor written).
Loaded(doc, paths) == [f \in Paths |-> IF f \in paths THEN doc[f] ELSE NoDoc[f]]

\* A request between its findByUserId and its save.
Pending(op, id, doc) == [op |-> op, id |-> id, doc |-> doc]

\* Every document the store can hold.
Accounts ==
  {[username |-> u, firstName |-> f, lastName |-> l, password |-> Hash(p, s)] :
     u \in Usernames, f \in FirstNames, l \in LastNames, p \in Passwords, s \in Salts}

\* Every request that can be pending at a save.
PendingUpdates ==
  {Pending("updateProfile", id, Loaded(d, ProfilePaths)) : id \in Ids, d \in Accounts}

PendingChanges ==
  {Pending("changePassword", id, Loaded(d, PasswordPaths)) : id \in Ids, d \in Accounts}

PendingOf(op) == {r \in BagToSet(inflight) : r.op = op}

CanAdmit == BagCardinality(inflight) < MaxInFlight

\* The step just taken: the operation, what it returned (the error message,
\* the account, the `existing` or `updated` flag), the HTTP status and the
\* number of writes it issued to the store.
Step(op, ok, status, message, user, flag, wrote) ==
  [op |-> op, ok |-> ok, status |-> status, message |-> message,
   user |-> user, flag |-> flag, wrote |-> wrote]

Init ==
  /\ users = <<>>
  /\ inflight = EmptyBag
  /\ created = {}
  /\ last = Step("init", TRUE, 0, "", 0, FALSE, 0)

\* ---- AuthContoller ------------------------------------------------------------
\* POST /auth/new
AuthContoller_new(dto, s) ==
  LET r == create(users, dto, s)
  IN /\ Len(users) < MaxUsers \/ DuplicateKey(users, 0, dto.username)
     /\ users' = r.users
     /\ created' = IF r.ok THEN created \cup {dto.username} ELSE created
     /\ last' = Step("new", r.ok, IF r.ok THEN CREATED ELSE BAD_REQUEST,
                     r.message, r.user, FALSE, 1)
     /\ UNCHANGED inflight

\* Mutant: the status tells the two failures apart.
AuthContoller_authorize_statusByCause(dto) ==
  LET r == verify(users, dto)
  IN /\ last' = Step("authorize", r.ok,
                     IF r.ok THEN OK ELSE IF r.message = MsgNotFound THEN 404 ELSE 401,
                     r.message, r.user, FALSE, 0)
     /\ UNCHANGED <<users, inflight, created>>

\* POST /auth
AuthContoller_authorize(dto) ==
  LET r == verify(users, dto)
  IN /\ last' = Step("authorize", r.ok, IF r.ok THEN OK ELSE BAD_REQUEST,
                     r.message, r.user, FALSE, 0)
     /\ UNCHANGED <<users, inflight, created>>

\* POST /auth/exists
AuthContoller_checkIfExists(username) ==
  LET r == checkIfExists(users, username)
  IN /\ last' = Step("checkIfExists", TRUE, OK, "", 0, r.existing, 0)
     /\ UNCHANGED <<users, inflight, created>>

\* ---- UserService.updateProfile, UserService.changePassword -------------------
\* await this.findByUserId(id)
updateProfile_find(id) ==
  LET r == findByUserId(users, id)
  IN /\ CanAdmit
     /\ IF r.ok
          THEN /\ inflight' = inflight (+)
                    SetToBag({Pending("updateProfile", id, Loaded(r.doc, ProfilePaths))})
               /\ last' = Step("updateProfile_find", TRUE, 0, "", id, FALSE, 0)
          ELSE /\ inflight' = inflight
               /\ last' = Step("updateProfile", FALSE, 0, r.message, 0, FALSE, 0)
     /\ UNCHANGED <<users, created>>

\* The assignments, isModified() and await user.save().  The dto is first
\* read here, so its value is drawn here.
updateProfile_save(l, dto) ==
  LET r == updateProfile(users, l.id, l.doc, dto)
  IN /\ l \in PendingOf("updateProfile")
     /\ users' = r.users
     /\ inflight' = inflight (-) SetToBag({l})
     /\ last' = Step("updateProfile", r.ok, 0, r.message, l.id, r.updated, r.wrote)
     /\ UNCHANGED created

\* await this.findByUserId(id); await user.comparePassword(dto.password)
changePassword_find(id, password) ==
  LET r == findByUserId(users, id)
  IN /\ CanAdmit
     /\ IF r.ok /\ comparePassword(r.doc, password)
          THEN /\ inflight' = inflight (+)
                    SetToBag({Pending("changePassword", id, Loaded(r.doc, PasswordPaths))})
               /\ last' = Step("changePassword_find", TRUE, 0, "", id, FALSE, 0)
          ELSE /\ inflight' = inflight
               /\ last' = Step("changePassword", FALSE, 0,
                               IF r.ok THEN MsgIncorrect ELSE r.message, 0, FALSE, 0)
     /\ UNCHANGED <<users, created>>

\* user.password = dto.newPassword; await user.save().  dto.newPassword is
\* first read here, so its value is drawn here.
changePassword_save(l, newPassword, s) ==
  LET r == changePassword(users, l.id, l.doc, newPassword, s)
  IN /\ l \in PendingOf("changePassword")
     /\ users' = r.users
     /\ inflight' = inflight (-) SetToBag({l})
     /\ last' = Step("changePassword", r.ok, 0, r.message, l.id, r.updated, 1)
     /\ UNCHANGED created

Next ==
  \/ \E dto \in CreateDto, s \in Salts : AuthContoller_new(dto, s)
  \/ \E dto \in AuthorizeDto : AuthContoller_authorize(dto)
  \/ \E u \in Usernames : AuthContoller_checkIfExists(u)
  \/ \E id \in Ids : updateProfile_find(id)
  \/ \E l \in PendingUpdates, dto \in UpdateProfileDto : updateProfile_save(l, dto)
  \/ \E id \in Ids, pw \in Passwords : changePassword_find(id, pw)
  \/ \E l \in PendingChanges, n \in Passwords, s \in Salts :
        changePassword_save(l, n, s)

Spec == Init /\ [][Next]_vars

\* ---- properties ---------------------------------------------------------------
\* Some account in store `us` has username `u`.
Holds(us, u) == \E i \in DOMAIN us : us[i].username = u

\* The profile fields of a loaded document differ from the supplied ones.
Differs(loaded, dto) == \E f \in ProfilePaths : loaded[f] # dto[f]

\* C1: a create whose username is already held fails with "User already
\* exists." (400 at POST /auth/new), adds no account and leaves every field of
\* every stored account as it was.
C1_DuplicateCreateFails ==
  [][last'.op = "new" => \A dto \in CreateDto, s \in Salts :
       (AuthContoller_new(dto, s) /\ Holds(users, dto.username))
         => /\ ~last'.ok
            /\ last'.message = MsgAlreadyExists
            /\ last'.status = BAD_REQUEST
            /\ users' = users]_vars

C1_Witness ==
  /\ last.op = "new"
  /\ ~last.ok
  /\ last.message = MsgAlreadyExists
  /\ Len(users) >= 1

\* C2 (as stated): every username that a create has successfully registered
\* is reported existing by any later checkIfExists.
C2_CreatedAlwaysExists ==
  \A u \in created : checkIfExists(users, u).existing

\* C2 (amended): a create whose username is held by no account succeeds and
\* returns the new account, checkIfExists for that username is then true, and
\* it stays true until an updateProfile renames the account holding it.
C2_FreshCreateSucceeds ==
  [][/\ (last'.op = "new" => \A dto \in CreateDto, s \in Salts :
          (AuthContoller_new(dto, s) /\ ~Holds(users, dto.username))
            => /\ last'.ok
               /\ last'.status = CREATED
               /\ last'.message = ""
               /\ last'.user \in DOMAIN users'
               /\ users'[last'.user].username = dto.username
               /\ checkIfExists(users', dto.username).existing)
     /\ (users' # users => \A u \in Usernames :
          (checkIfExists(users, u).existing /\ ~checkIfExists(users', u).existing)
            => \E l \in BagToSet(inflight), dto \in UpdateProfileDto :
                 /\ updateProfile_save(l, dto)
                 /\ users[l.id].username = u
                 /\ dto.username # u
                 /\ last'.flag)]_vars

C2_Witness ==
  /\ last.op = "new"
  /\ last.ok
  /\ last.user = Len(users)
  /\ users[last.user].username \in created

C4_ChangePassword ==
  [][/\ (last'.op \in {"changePassword", "changePassword_find"} =>
          \A id \in Ids, pw \in Passwords :
            (changePassword_find(id, pw) /\ id \in DOMAIN users)
              => /\ users' = users
                 /\ IF comparePassword(users[id], pw)
                      THEN last'.op = "changePassword_find" /\ last'.ok
                      ELSE /\ last'.op = "changePassword"
                           /\ ~last'.ok
                           /\ last'.message = MsgIncorrect
                           /\ inflight' = inflight)
     /\ (last'.op = "changePassword" =>
          \A l \in BagToSet(inflight), n \in Passwords, s \in Salts :
            changePassword_save(l, n, s)
              => /\ last'.ok
                 /\ last'.flag
                 /\ last'.message = ""
                 /\ comparePassword(users'[l.id], n)
                 /\ \A q \in Passwords \ {n} : ~comparePassword(users'[l.id], q)
                 /\ \A f \in ProfilePaths : users'[l.id][f] = users[l.id][f]
                 /\ \A i \in DOMAIN users \ {l.id} : users'[i] = users[i])]_vars

C4_Witness ==
  /\ last.op = "changePassword"
  /\ last.ok
  /\ last.flag
  /\ last.user \in DOMAIN users

\* C5: an updateProfile whose supplied username, firstName and lastName all
\* equal the values it loaded returns updated = false and issues no write:
\* the store is unchanged.
C5_NoWriteWhenUnchanged ==
  [][last'.op = "updateProfile" =>
       \A l \in BagToSet(inflight), dto \in UpdateProfileDto :
         (updateProfile_save(l, dto) /\ ~Differs(l.doc, dto))
           => /\ last'.ok
              /\ ~last'.flag
              /\ last'.wrote = 0
              /\ users' = users]_vars

C5_Witness ==
  /\ last.op = "updateProfile"
  /\ last.ok
  /\ ~last.flag
  /\ last.wrote = 0

\* C6 (as stated): an updateProfile with at least one supplied field different
\* from the loaded one returns updated = true and the stored account then has
\* exactly the supplied username, firstName and lastName, also when another
\* account holds the supplied username.
C6_UpdateAlwaysApplies ==
  [][last'.op = "updateProfile" =>
       \A l \in BagToSet(inflight), dto \in UpdateProfileDto :
         (updateProfile_save(l, dto) /\ Differs(l.doc, dto))
           => /\ last'.ok
              /\ last'.flag
              /\ \A f \in ProfilePaths : users'[l.id][f] = dto[f]]_vars

\* C6 (amended): such an updateProfile is rejected by the store, fails and
\* leaves the store unchanged when it changes the username to one another
\* account holds; otherwise it returns updated = true and every field whose
\* supplied value differs from the loaded one is stored as supplied, so that
\* the account has exactly the supplied fields when no other request changed
\* it since it was loaded.
C6_UpdateAppliesUnlessTaken ==
  [][last'.op = "updateProfile" =>
       \A l \in BagToSet(inflight), dto \in UpdateProfileDto :
         (updateProfile_save(l, dto) /\ Differs(l.doc, dto))
           => IF dto.username # l.doc.username
                 /\ \E j \in DOMAIN users : j # l.id /\ users[j].username = dto.username
                THEN /\ ~last'.ok
                     /\ ~last'.flag
                     /\ last'.message = MsgDuplicateKey
                     /\ users' = users
                ELSE /\ last'.ok
                     /\ last'.flag
                     /\ last'.wrote = 1
                     /\ \A f \in ProfilePaths :
                          users'[l.id][f] = IF dto[f] # l.doc[f] THEN dto[f]
                                                                ELSE users[l.id][f]
                     /\ users'[l.id].password = users[l.id].password
                     /\ \A i \in DOMAIN users \ {l.id} : users'[i] = users[i]
                     /\ (\A f \in ProfilePaths : users[l.id][f] = l.doc[f])
                          => \A f \in ProfilePaths : users'[l.id][f] = dto[f]]_vars

C6_Witness ==
  /\ last.op = "updateProfile"
  /\ last.ok
  /\ last.flag
  /\ last.wrote = 1

\* C7: verify returns the account that has the supplied username when the
\* password matches its hash, fails with "User not found." when no account has
\* the username and with "Incorrect password." when the password does not
\* match; in every case the store is unchanged.
C7_Verify ==
  [][last'.op = "authorize" =>
       \A dto \in AuthorizeDto :
         AuthContoller_authorize(dto)
           => /\ users' = users
              /\ inflight' = inflight
              /\ last'.wrote = 0
              /\ IF ~Holds(users, dto.username)
                   THEN ~last'.ok /\ last'.message = MsgNotFound
                   ELSE IF \E i \in DOMAIN users :
                             /\ users[i].username = dto.username
                             /\ Hash(dto.password, users[i].password.salt)
                                  = users[i].password
                          THEN /\ last'.ok
                               /\ last'.user \in DOMAIN users
                               /\ users[last'.user].username = dto.username
                          ELSE ~last'.ok /\ last'.message = MsgIncorrect]_vars

C7_Witness ==
  /\ last.op = "authorize"
  /\ last.ok
  /\ last.user \in DOMAIN users
  /\ Len(users) = 2

\* C8: checkIfExists never fails; it returns existing = true exactly when some
\* account has the username, and leaves the store unchanged.
C8_CheckIfExists ==
  [][last'.op = "checkIfExists" =>
       \A u \in Usernames :
         AuthContoller_checkIfExists(u)
           => /\ last'.ok
              /\ last'.status = OK
              /\ last'.message = ""
              /\ last'.flag = Holds(users, u)
              /\ last'.wrote = 0
              /\ users' = users]_vars

C8_Witness ==
  /\ last.op = "checkIfExists"
  /\ last.ok
  /\ ~last.flag
  /\ Len(users) >= 1

\* C9: no two stored accounts ever have the same username, under any
\* interleaving of requests: a create leaves exactly one account with its
\* username and fails with "User already exists." when the username was
\* held, and an updateProfile never leaves two accounts with its username.
C9_UniqueUsernames ==
  /\ [](\A i, j \in DOMAIN users : users[i].username = users[j].username => i = j)
  /\ [][/\ (last'.op = "new" => \A dto \in CreateDto, s \in Salts :
             AuthContoller_new(dto, s)
               => /\ Cardinality({i \in DOMAIN users' :
                                    users'[i].username = dto.username}) = 1
                  /\ last'.ok = ~Holds(users, dto.username)
                  /\ ~last'.ok => last'.message = MsgAlreadyExists)
        /\ (last'.op = "updateProfile" =>
             \A l \in BagToSet(inflight), dto \in UpdateProfileDto :
               updateProfile_save(l, dto)
                 => Cardinality({i \in DOMAIN users' :
                                   users'[i].username = dto.username}) <= 1)]_vars

C9_Witness ==
  /\ last.op = "updateProfile"
  /\ ~last.ok
  /\ last.message = MsgDuplicateKey
  /\ Len(users) = 2

\* C10: the stored password of every account is a hash, never a plaintext
\* password from a request.
C10_PasswordIsHash ==
  \A i \in DOMAIN users :
    /\ users[i].password.kind = "hash"
    /\ \A p \in Passwords : users[i].password # Plain(p)

C10_Witness ==
  /\ last.op = "changePassword"
  /\ last.ok
  /\ last.wrote = 1
  /\ Len(users) = 2
====
